---- MODULE Spec2Model ----
(***************************************************************************)
(* Model of vold's PublicVolume (src/vold/PublicVolume.cpp): the mount,    *)
(* unmount and format handlers of removable public volumes, the system     *)
(* properties that hold the OTA / startup / cust trigger slots, the ASEC   *)
(* bind mount and the FUSE daemon each visible volume forks.               *)
(***************************************************************************)
EXTENDS Integers, Sequences, FiniteSets, TLC

(***************************************************************************)
(* Bounds of the model.                                                    *)
(***************************************************************************)
\* process ids fork() can hand out: 1..MaxPid
MaxPid == 1
\* device numbers a FUSE mount can get: 1..MaxFuseDev (0 is "stat failed")
MaxFuseDev == 2
\* depth of the mount stack kept for kAsecPath
MaxAsecDepth == 1

(***************************************************************************)
(* Inputs: the block devices, what ReadMetadataUntrusted can report and    *)
(* what format can be asked for.                                           *)
(***************************************************************************)
\* makedev(): major in bits 8..19, minor in bits 0..7 (values below 2^20)
MakeDev(ma, mi) == ma * 256 + mi

Devices == {MakeDev(179, 1), MakeDev(8, 17)}

FsTypes == {"vfat", "ntfs", "ext4"}

Uuids == {"", "ABCD-1234"}

FormatTypes == {"vfat", "auto", "ntfs", "ext4"}

MountFlagSets == SUBSET {"kPrimary", "kVisible"}

(***************************************************************************)
(* Error codes returned by the handlers.  "ERRNO" is -errno of a failed    *)
(* system call, whose value the handler does not choose.                   *)
(***************************************************************************)
OK == "OK"
EIO == "-EIO"
EINVAL == "-EINVAL"
ERRNO == "-errno"

(***************************************************************************)
(* StringPrintf("%u"): decimal digits of a natural number.                 *)
(***************************************************************************)
Digit(d) == CASE d = 0 -> "0" [] d = 1 -> "1" [] d = 2 -> "2" [] d = 3 -> "3"
              [] d = 4 -> "4" [] d = 5 -> "5" [] d = 6 -> "6" [] d = 7 -> "7"
              [] d = 8 -> "8" [] d = 9 -> "9"

RECURSIVE UIntToStr(_)
UIntToStr(n) == IF n < 10 THEN Digit(n)
                ELSE UIntToStr(n \div 10) \o Digit(n % 10)

major(device) == (device \div 256) % 4096
minor(device) == device % 256

\* setId(StringPrintf("public:%u:%u", major(device), minor(device)))
getId(device) ==
    "public:" \o UIntToStr(major(device)) \o ":" \o UIntToStr(minor(device))

\* mDevPath
DevPath(device) == "/dev/block/vold/" \o getId(device)

kAsecPath == "/mnt/secure/asec"

(***************************************************************************)
(* Stable name and the paths of a mount session (doMount, lines 125-135).  *)
(***************************************************************************)
\* std::string stableName = getId(); if (!mFsUuid.empty()) stableName = mFsUuid;
StableName(id, fsUuid) == IF fsUuid # "" THEN fsUuid ELSE id

RawPath(name) == "/mnt/media_rw/" \o name
FuseDefault(name) == "/mnt/runtime/default/" \o name
FuseRead(name) == "/mnt/runtime/read/" \o name
FuseWrite(name) == "/mnt/runtime/write/" \o name
StoragePath(name) == "/storage/" \o name

\* every stable name a volume of the model can get
StableNames == {StableName(getId(d), u) : d \in Devices, u \in Uuids}

\* if (mFsType != "vfat" && mFsType != "ntfs") return -EIO;
UnsupportedFsType(fsType) == fsType # "vfat" /\ fsType # "ntfs"

(***************************************************************************)
(* The three post-mount hooks, in the order doMount evaluates them, and    *)
(* the system properties that make up each trigger slot.                   *)
(***************************************************************************)
Hooks == <<"update", "startup", "cust">>

HookSet == {Hooks[i] : i \in 1..Len(Hooks)}

TriggerFile(h) == CASE h = "update" -> "/OTA/update.zip"
                    [] h = "startup" -> "/startup/start_up.sh"
                    [] h = "cust" -> "/cust/cust_update.zip"

PathKey(h) == "sys." \o h \o ".path"
StorageKey(h) == "sys." \o h \o ".storage"
TriggerKey(h) == "sys." \o h \o ".trigger"

PropKeys == UNION {{PathKey(h), StorageKey(h), TriggerKey(h)} : h \in HookSet}

\* libcutils property_get_bool: the value parsed as a boolean, else the default
property_get_bool(value, default_value) ==
    IF value \in {"0", "n", "no", "false", "off"} THEN FALSE
    ELSE IF value \in {"1", "y", "yes", "true", "on"} THEN TRUE
    ELSE default_value

property_set(p, key, value) == [p EXCEPT ![key] = value]

\* the hook that fires: the first one, in order, whose trigger was not set
\* when the call read it and whose trigger file exists; "none" otherwise
RECURSIVE FiredFrom(_, _, _)
FiredFrom(i, trig, exists) ==
    IF i > Len(Hooks) THEN "none"
    ELSE IF trig[Hooks[i]] THEN FiredFrom(i + 1, trig, exists)
    ELSE IF Hooks[i] \in exists THEN Hooks[i]
    ELSE FiredFrom(i + 1, trig, exists)

\* a chain that does not skip the hooks whose slot is already claimed
RECURSIVE FiredFrom_NoSkip(_, _)
FiredFrom_NoSkip(i, exists) ==
    IF i > Len(Hooks) THEN "none"
    ELSE IF Hooks[i] \in exists THEN Hooks[i]
    ELSE FiredFrom_NoSkip(i + 1, exists)

FiredHook_NoSkip(trig, exists) == FiredFrom_NoSkip(1, exists)

FiredHook(trig, exists) == FiredFrom(1, trig, exists)

\* the access() calls the chain makes, in order
RECURSIVE AccessFrom(_, _, _)
AccessFrom(i, trig, exists) ==
    IF i > Len(Hooks) THEN << >>
    ELSE IF trig[Hooks[i]] THEN AccessFrom(i + 1, trig, exists)
    ELSE IF Hooks[i] \in exists THEN << <<"access:" \o Hooks[i], "ok">> >>
    ELSE << <<"access:" \o Hooks[i], "fail">> >> \o AccessFrom(i + 1, trig, exists)

AccessCalls(trig, exists) == AccessFrom(1, trig, exists)

\* the three property_set calls of a firing hook, in source order
HookWrites(h, rawPath, stableName) ==
    IF h = "update"
    THEN << <<StorageKey(h), stableName>>,
            <<PathKey(h), rawPath \o TriggerFile(h)>>,
            <<TriggerKey(h), "1">> >>
    ELSE << <<PathKey(h), rawPath \o TriggerFile(h)>>,
            <<StorageKey(h), stableName>>,
            <<TriggerKey(h), "1">> >>

(***************************************************************************)
(* State.                                                                  *)
(***************************************************************************)
VARIABLES
    vol,        \* per device: the fields of the PublicVolume object
    mountFlags, \* per device: getMountFlags()
    mState,     \* per device: the lifecycle state the owner keeps
    pc,         \* per device: where its call stands ("idle": none, "return":
                \* the handler has returned and the owner has yet to act on it)
    loc,        \* per device: the locals of its running doMount
    ret,        \* the call that returned last: its device, handler and status
    calls,      \* the external calls made since the last call started
    props,      \* the system properties: property key -> value
    asec,       \* the mounts stacked on kAsecPath, the top one last
    procs,      \* pid -> the forked FUSE child (its state "free": none)
    viewDev,    \* write-view path -> its device number (0: no FUSE on it)
    claimer     \* history: hook -> the device whose mount claimed its slot

vars == <<vol, mountFlags, mState, pc, loc, ret, calls, props,
          asec, procs, viewDev, claimer>>

Pids == 1..MaxPid

NoProcess == [name |-> "", state |-> "free"]

NoReturn == [dev |-> 0, op |-> "none", status |-> OK]

NoLocals == [ntfs |-> 0, stableName |-> "", trig |-> [h \in HookSet |-> FALSE],
             before |-> 0, fired |-> "none", step |-> 0, rawMounted |-> FALSE]

\* PublicVolume::PublicVolume: mFusePid(0), the strings empty
NewVolume == [mFsUuid |-> "", mRawPath |-> "",
              mFuseDefault |-> "", mFuseRead |-> "", mFuseWrite |-> "",
              mFusePid |-> 0, internalPath |-> "", path |-> ""]

\* the state after construction, the volumes of `driven` having any flags
InitWith(driven) ==
    /\ vol = [d \in Devices |-> NewVolume]
    /\ mountFlags \in {f \in [Devices -> MountFlagSets] :
                          \A d \in Devices \ driven : f[d] = {}}
    /\ mState = [d \in Devices |-> "kUnmounted"]
    /\ pc = [d \in Devices |-> "idle"]
    /\ loc = [d \in Devices |-> NoLocals]
    /\ ret = NoReturn
    /\ calls = << >>
    /\ props = [k \in PropKeys |-> ""]
    /\ asec = << >>
    /\ procs = [p \in Pids |-> NoProcess]
    /\ viewDev = [w \in {FuseWrite(n) : n \in StableNames} |-> 0]
    /\ claimer = [h \in HookSet |-> 0]

\* the owner serializes its calls: a call starts when no call is running
NoCallRunning == \A d \in Devices : pc[d] = "idle"

(***************************************************************************)
(* What every action shares.                                               *)
(***************************************************************************)
\* a handler of d returns status: its locals die
Return(d, op, status) ==
    /\ pc' = [pc EXCEPT ![d] = "return"]
    /\ loc' = [loc EXCEPT ![d] = NoLocals]
    /\ ret' = [dev |-> d, op |-> op, status |-> status]

\* the state the owner gives the volume when a handler has returned
StateAfter(op, status, state) ==
    CASE op = "mount" -> IF status = OK THEN "kMounted" ELSE "kUnmountable"
      [] op = "unmount" -> "kUnmounted"
      [] OTHER -> state

\* the owner takes the status of the handler that returned
Returned(d) ==
    /\ pc[d] = "return"
    /\ ret.dev = d
    /\ mState' = [mState EXCEPT ![d] = StateAfter(ret.op, ret.status, @)]
    /\ pc' = [pc EXCEPT ![d] = "idle"]
    /\ ret' = NoReturn
    /\ calls' = << >>
    /\ UNCHANGED <<vol, mountFlags, loc, props, asec, procs, viewDev, claimer>>

Rc(ok) == IF ok THEN "ok" ELSE "fail"

\* GetDevice(path): st_dev of the path
GetDevice(path) == viewDev[path]

(***************************************************************************)
(* create / destroy (lines 97-103).                                        *)
(***************************************************************************)
\* status_t doCreate() { return CreateDeviceNode(mDevPath, mDevice); }
doCreate(d) ==
    /\ pc[d] = "idle"
    /\ mState[d] = "kUnmounted"
    /\ \E ok \in BOOLEAN :
        /\ calls' = (<< <<"CreateDeviceNode", IF ok THEN "ok" ELSE "fail">> >>)
        /\ Return(d, "create", IF ok THEN OK ELSE ERRNO)
    /\ UNCHANGED <<mState, vol, mountFlags, props, asec, procs, viewDev, claimer>>

\* status_t doDestroy() { return DestroyDeviceNode(mDevPath); }
doDestroy(d) ==
    /\ pc[d] = "idle"
    /\ mState[d] # "kMounted"
    /\ calls' = (<< <<"DestroyDeviceNode", "ok">> >>)
    /\ Return(d, "destroy", OK)
    /\ UNCHANGED <<mState, vol, mountFlags, props, asec, procs, viewDev, claimer>>

(***************************************************************************)
(* doMount, lines 105-176: metadata, probe, paths, directories and the     *)
(* native mount.                                                           *)
(***************************************************************************)
\* what ReadMetadataUntrusted can report
Metadata == [fsType : FsTypes, fsUuid : Uuids]

\* a probe that takes the fallback family without looking at its check
Probe_IgnoresNtfsCheck(vfatCheck, ntfsCheck) ==
    IF vfatCheck # 0 THEN 1 ELSE 0

\* lines 114-123: 0 = mount as vfat, 1 = mount as ntfs, -1 = both checks failed
\* (vfat::Check and Ntfs::check return 0 when the check passes)
Probe(vfatCheck, ntfsCheck) ==
    IF vfatCheck # 0
    THEN IF ntfsCheck = 0 THEN 1 ELSE -1
    ELSE 0

\* the checkers the probe invokes, in order
ProbeCalls(vfatCheck, ntfsCheck) ==
    IF vfatCheck # 0
    THEN << <<"vfat::Check", "fail">>,
            <<"Ntfs::check", IF ntfsCheck = 0 THEN "ok" ELSE "fail">> >>
    ELSE << <<"vfat::Check", "ok">> >>

\* lines 167-176: TRUE when a failed native mount makes doMount return -EIO
NativeMountAborts(ntfs, mountRc) ==
    IF ntfs # 0 THEN FALSE ELSE mountRc # 0

NativeMountCall(ntfs, mountRc) ==
    <<IF ntfs # 0 THEN "Ntfs::doMount" ELSE "vfat::Mount",
      IF mountRc = 0 THEN "ok" ELSE "fail">>

\* path fields whose user-facing path does not look at kVisible
WithPaths_AlwaysStorage(v, name, flags) ==
    [v EXCEPT !.mRawPath = RawPath(name),
              !.mFuseDefault = FuseDefault(name),
              !.mFuseRead = FuseRead(name),
              !.mFuseWrite = FuseWrite(name),
              !.internalPath = RawPath(name),
              !.path = StoragePath(name)]

\* lines 131-157: the path fields set from the stable name
WithPaths(v, name, flags) ==
    [v EXCEPT !.mRawPath = RawPath(name),
              !.mFuseDefault = FuseDefault(name),
              !.mFuseRead = FuseRead(name),
              !.mFuseWrite = FuseWrite(name),
              !.internalPath = RawPath(name),
              !.path = IF "kVisible" \in flags THEN StoragePath(name)
                       ELSE RawPath(name)]

\* a call that does not read the trigger flags and takes every slot for idle
ReadTriggers_AllIdle(p) == [h \in HookSet |-> FALSE]

\* lines 139, 144, 149: the trigger flags as the call reads them
ReadTriggers(p) ==
    [h \in HookSet |-> property_get_bool(p[TriggerKey(h)], FALSE)]

doMount_probe(d) ==
    /\ pc[d] = "idle"
    /\ mState[d] \in {"kUnmounted", "kUnmountable"}
    /\ mState' = [mState EXCEPT ![d] = "kChecking"]
    /\ \E meta \in Metadata, vfatCheck \in {0, -1}, ntfsCheck \in {0, -1},
          dirsRc \in {0, -1}, mountRc \in {0, -1} :
        LET v1 == [vol[d] EXCEPT !.mFsUuid = meta.fsUuid]
            ntfs == Probe(vfatCheck, ntfsCheck)
            name == StableName(getId(d), meta.fsUuid)
            v2 == WithPaths(v1, name, mountFlags[d])
            c1 == << <<"readMetadata", meta.fsType>> >>
            c2 == c1 \o ProbeCalls(vfatCheck, ntfsCheck)
            c3 == c2 \o << <<"fs_prepare_dir", Rc(dirsRc = 0)>> >>
            c4 == c3 \o << NativeMountCall(ntfs, mountRc) >>
        IN
        IF UnsupportedFsType(meta.fsType)
        THEN /\ vol' = [vol EXCEPT ![d] = v1]
             /\ calls' = c1
             /\ Return(d, "mount", EIO)
        ELSE IF ntfs = -1
        THEN /\ vol' = [vol EXCEPT ![d] = v1]
             /\ calls' = c2
             /\ Return(d, "mount", EIO)
        ELSE IF dirsRc # 0
        THEN /\ vol' = [vol EXCEPT ![d] = v2]
             /\ calls' = c3
             /\ Return(d, "mount", ERRNO)
        ELSE IF NativeMountAborts(ntfs, mountRc)
        THEN /\ vol' = [vol EXCEPT ![d] = v2]
             /\ calls' = c4
             /\ Return(d, "mount", EIO)
        ELSE /\ vol' = [vol EXCEPT ![d] = v2]
             /\ calls' = c4
             /\ loc' = [loc EXCEPT ![d] =
                          [NoLocals EXCEPT !.ntfs = ntfs, !.stableName = name,
                                           !.trig = ReadTriggers(props),
                                           !.rawMounted = (mountRc = 0)]]
             /\ pc' = [pc EXCEPT ![d] = "hooks"]
             /\ UNCHANGED ret
    /\ UNCHANGED <<mountFlags, props, asec, procs, viewDev, claimer>>

(***************************************************************************)
(* doMount, lines 178-235: the post-mount hooks.                           *)
(***************************************************************************)
\* the trigger files access() can find: those of a mounted filesystem
TriggerFiles(rawMounted) == IF rawMounted THEN SUBSET HookSet ELSE {{}}

doMount_hooks(d) ==
    /\ pc[d] = "hooks"
    /\ \E exists \in TriggerFiles(loc[d].rawMounted) :
        LET fired == FiredHook(loc[d].trig, exists) IN
        /\ calls' = calls \o AccessCalls(loc[d].trig, exists)
        /\ loc' = [loc EXCEPT ![d].fired = fired,
                              ![d].step = IF fired = "none" THEN 0 ELSE 1]
        /\ pc' = [pc EXCEPT ![d] = IF fired = "none" THEN "asec" ELSE "set"]
    /\ UNCHANGED <<vol, mountFlags, mState, ret, props, asec, procs, viewDev, claimer>>

\* one property_set of the hook that fired
doMount_property_set(d) ==
    /\ pc[d] = "set"
    /\ LET w == HookWrites(loc[d].fired, vol[d].mRawPath, loc[d].stableName)
           i == loc[d].step
       IN
       /\ props' = property_set(props, w[i][1], w[i][2])
       /\ claimer' = IF i = Len(w) THEN [claimer EXCEPT ![loc[d].fired] = d]
                     ELSE claimer
       /\ IF i < Len(w)
          THEN /\ loc' = [loc EXCEPT ![d].step = i + 1]
               /\ UNCHANGED pc
          ELSE /\ loc' = [loc EXCEPT ![d].step = 0]
               /\ pc' = [pc EXCEPT ![d] = "asec"]
    /\ UNCHANGED <<vol, mountFlags, mState, ret, calls, asec, procs, viewDev>>

(***************************************************************************)
(* doMount, lines 235-243, and initAsecStage, lines 73-95.                 *)
(***************************************************************************)
\* the outcomes of rename() and mkdir() in initAsecStage
RenameOutcomes == {"none", "ok", "fail"}
MkdirOutcomes == {"ok", "EEXIST", "fail"}

\* lines 85-92: BindMount is reached unless mkdir failed other than EEXIST
AsecBindReached(mkdirRc) == mkdirRc \in {"ok", "EEXIST"}

initAsecStageCalls(renameRc, mkdirRc, bindOk) ==
    << <<"initAsecStage", Rc(AsecBindReached(mkdirRc))>> >>
    \o (IF renameRc = "none" THEN << >> ELSE << <<"rename", renameRc>> >>)
    \o << <<"mkdir", mkdirRc>> >>
    \o (IF AsecBindReached(mkdirRc)
        THEN << <<"BindMount", Rc(bindOk)>> >>
        ELSE << >>)

\* staging decided on the wrong flag
IsPrimary_TestsVisible(flags) == "kVisible" \in flags

\* line 236: staging is attempted for a primary volume
IsPrimary(flags) == "kPrimary" \in flags

\* the visibility test made on the wrong flag
NotVisible_TestsPrimary(flags) == "kPrimary" \notin flags

\* line 240: the mount is complete without a FUSE daemon
NotVisible(flags) == "kVisible" \notin flags

doMount_asec(d) ==
    /\ pc[d] = "asec"
    /\ \E renameRc \in RenameOutcomes, mkdirRc \in MkdirOutcomes, bindOk \in BOOLEAN :
        LET securePath == vol[d].mRawPath \o "/.android_secure"
            bound == AsecBindReached(mkdirRc) /\ bindOk
        IN
        /\ IF IsPrimary(mountFlags[d])
           THEN /\ bound => Len(asec) < MaxAsecDepth
                /\ asec' = IF bound THEN Append(asec, securePath) ELSE asec
                /\ calls' = calls \o initAsecStageCalls(renameRc, mkdirRc, bindOk)
           ELSE UNCHANGED <<asec, calls>>
        /\ IF NotVisible(mountFlags[d])
           THEN Return(d, "mount", OK)
           ELSE /\ pc' = [pc EXCEPT ![d] = "fork"]
                /\ UNCHANGED <<loc, ret>>
    /\ UNCHANGED <<vol, mountFlags, mState, props, procs, viewDev, claimer>>

(***************************************************************************)
(* doMount, lines 245-286: fork the FUSE daemon and wait for its mount.    *)
(***************************************************************************)
FreePids == {p \in Pids : procs[p].state = "free"}

\* line 275: the value fork() leaves in mFusePid when it fails
ForkFailed == -1

doMount_fork(d) ==
    /\ pc[d] = "fork"
    /\ \/ \E pid \in FreePids :
            /\ procs' = [procs EXCEPT ![pid] =
                           [name |-> loc[d].stableName, state |-> "forked"]]
            /\ vol' = [vol EXCEPT ![d].mFusePid = pid]
            /\ loc' = [loc EXCEPT ![d].before = GetDevice(vol[d].mFuseWrite)]
            /\ calls' = calls \o << <<"fork", "ok">> >>
            /\ pc' = [pc EXCEPT ![d] = "poll"]
            /\ UNCHANGED ret
       \/ /\ vol' = [vol EXCEPT ![d].mFusePid = ForkFailed]
          /\ calls' = calls \o << <<"fork", "fail">> >>
          /\ Return(d, "mount", ERRNO)
          /\ UNCHANGED procs
    /\ UNCHANGED <<mountFlags, mState, props, asec, viewDev, claimer>>

\* a poll that never sees the change
doMount_poll_NeverReturns(d) ==
    /\ pc[d] = "poll"
    /\ UNCHANGED vars

\* the loop test inverted
StillWaiting_Inverted(before, now) == before # now

\* line 280: while (before == GetDevice(mFuseWrite)) usleep(50000);
StillWaiting(before, now) == before = now

doMount_poll(d) ==
    /\ pc[d] = "poll"
    /\ IF StillWaiting(loc[d].before, GetDevice(vol[d].mFuseWrite))
       THEN UNCHANGED <<pc, loc, ret>>
       ELSE Return(d, "mount", OK)
    /\ UNCHANGED <<vol, mountFlags, mState, calls, props, asec, procs, viewDev, claimer>>

(***************************************************************************)
(* The forked child (lines 247-273): execl of /system/bin/sdcard, which    *)
(* mounts FUSE on the views of its stable name, or _exit(1) when the exec  *)
(* fails.                                                                  *)
(***************************************************************************)
\* the device number a new FUSE mount gets: one no mount on the path has
FreshDevs(path) == {n \in 1..MaxFuseDev : n # viewDev[path]}

sdcard_mount(pid) ==
    /\ procs[pid].state = "forked"
    /\ \E dev \in FreshDevs(FuseWrite(procs[pid].name)) :
        viewDev' = [viewDev EXCEPT ![FuseWrite(procs[pid].name)] = dev]
    /\ procs' = [procs EXCEPT ![pid].state = "serving"]
    /\ UNCHANGED <<vol, mountFlags, mState, pc, loc, ret, calls, props, asec,
                   claimer>>

child_exit(pid) ==
    /\ procs[pid].state = "forked"
    /\ procs' = [procs EXCEPT ![pid].state = "exited"]
    /\ UNCHANGED <<vol, mountFlags, mState, pc, loc, ret, calls, props, asec,
                   viewDev, claimer>>

(***************************************************************************)
(* doUnmount, lines 288-364.                                               *)
(***************************************************************************)
\* line 289: the recorded child is killed and reaped
HasFusePid(mFusePid) == mFusePid > 0

\* a clearing without the comparison of the storage name
SlotMatches_Always(p, h, stableName) == TRUE

\* lines 325, 339, 353: !strcmp(<hook>_storage, stableName.c_str())
SlotMatches(p, h, stableName) == p[StorageKey(h)] = stableName

\* a clearing that resets the trigger and leaves path and storage name
ClearSlot_TriggerOnly(p, h) == [p EXCEPT ![TriggerKey(h)] = "0"]

\* lines 328-330, 342-344, 356-358
ClearSlot(p, h) ==
    [p EXCEPT ![PathKey(h)] = "", ![StorageKey(h)] = "", ![TriggerKey(h)] = "0"]

\* lines 320-360: every slot whose storage name is this volume's is cleared
RECURSIVE ClearSlotsFrom(_, _, _)
ClearSlotsFrom(i, p, stableName) ==
    IF i > Len(Hooks) THEN p
    ELSE ClearSlotsFrom(i + 1,
                        IF SlotMatches(p, Hooks[i], stableName)
                        THEN ClearSlot(p, Hooks[i]) ELSE p,
                        stableName)

\* a clearing that, like the hook chain of doMount, ends at the first match
RECURSIVE ClearSlotsFrom_FirstOnly(_, _, _)
ClearSlotsFrom_FirstOnly(i, p, stableName) ==
    IF i > Len(Hooks) THEN p
    ELSE IF SlotMatches(p, Hooks[i], stableName) THEN ClearSlot(p, Hooks[i])
    ELSE ClearSlotsFrom_FirstOnly(i + 1, p, stableName)

ClearSlots_FirstOnly(p, stableName) == ClearSlotsFrom_FirstOnly(1, p, stableName)

ClearSlots(p, stableName) == ClearSlotsFrom(1, p, stableName)

\* line 292: mFusePid after the kill and the wait
FusePidAfterUnmount(mFusePid) == IF HasFusePid(mFusePid) THEN 0 ELSE mFusePid

\* a clearing that forgets the raw path
ClearPaths_KeepsRaw(v) ==
    [v EXCEPT !.mFuseDefault = "", !.mFuseRead = "", !.mFuseWrite = ""]

\* lines 307-310
ClearPaths(v) ==
    [v EXCEPT !.mFuseDefault = "", !.mFuseRead = "", !.mFuseWrite = "",
              !.mRawPath = ""]

\* an unmount that gives up at the first step that fails
doUnmountCalls_StopsOnFailure(v, asecOk, rmdirOk) ==
    (IF HasFusePid(v.mFusePid)
     THEN << <<"kill", "ok">>, <<"waitpid", "ok">> >> ELSE << >>)
    \o << <<"ForceUnmount:asec", Rc(asecOk)>> >>
    \o (IF asecOk
        THEN << <<"ForceUnmount:default", "ok">>,
                <<"ForceUnmount:read", "ok">>,
                <<"ForceUnmount:write", "ok">>,
                <<"ForceUnmount:raw", "ok">>,
                <<"rmdir:default", Rc(rmdirOk)>> >>
             \o (IF rmdirOk
                 THEN << <<"rmdir:read", "ok">>, <<"rmdir:write", "ok">>,
                         <<"rmdir:raw", "ok">> >>
                 ELSE << >>)
        ELSE << >>)

\* lines 289-305: the calls of doUnmount, none of whose results is tested
doUnmountCalls(v, asecOk, rmdirOk) ==
    (IF HasFusePid(v.mFusePid)
     THEN << <<"kill", "ok">>, <<"waitpid", "ok">> >> ELSE << >>)
    \o << <<"ForceUnmount:asec", Rc(asecOk)>>,
          <<"ForceUnmount:default", "ok">>,
          <<"ForceUnmount:read", "ok">>,
          <<"ForceUnmount:write", "ok">>,
          <<"ForceUnmount:raw", "ok">>,
          <<"rmdir:default", Rc(rmdirOk)>>, <<"rmdir:read", Rc(rmdirOk)>>,
          <<"rmdir:write", Rc(rmdirOk)>>, <<"rmdir:raw", Rc(rmdirOk)>> >>

doUnmount(d) ==
    /\ pc[d] = "idle"
    /\ LET v == vol[d] IN
       \E asecOk \in (IF asec # << >> THEN BOOLEAN ELSE {TRUE}),
          rmdirOk \in BOOLEAN :
        /\ procs' = IF HasFusePid(v.mFusePid)
                    THEN [procs EXCEPT ![v.mFusePid] = NoProcess] ELSE procs
        /\ asec' = IF asec # << >> /\ asecOk
                   THEN SubSeq(asec, 1, Len(asec) - 1) ELSE asec
        /\ viewDev' = IF v.mFuseWrite # ""
                      THEN [viewDev EXCEPT ![v.mFuseWrite] = 0] ELSE viewDev
        /\ vol' = [vol EXCEPT ![d] =
                     [ClearPaths(v) EXCEPT !.mFusePid = FusePidAfterUnmount(@)]]
        /\ props' = ClearSlots(props, StableName(getId(d), v.mFsUuid))
        /\ claimer' = [h \in HookSet |->
                         IF SlotMatches(props, h, StableName(getId(d), v.mFsUuid))
                         THEN 0 ELSE claimer[h]]
        /\ calls' = doUnmountCalls(v, asecOk, rmdirOk)
        /\ Return(d, "unmount", OK)
    /\ UNCHANGED <<mountFlags, mState>>

(***************************************************************************)
(* doFormat, lines 366-381.                                                *)
(***************************************************************************)
\* a format that also takes the fallback family
FormatAccepted_AlsoNtfs(fsType) ==
    fsType = "vfat" \/ fsType = "auto" \/ fsType = "ntfs"

\* line 367
FormatAccepted(fsType) == fsType = "vfat" \/ fsType = "auto"

\* a format that gives up when the wipe fails
doFormatCalls_WipeAborts(fsType, wipeOk, formatRc) ==
    IF FormatAccepted(fsType)
    THEN IF wipeOk
         THEN << <<"WipeBlockDevice", "ok">>,
                 <<"vfat::Format", Rc(formatRc = 0)>> >>
         ELSE << <<"WipeBlockDevice", "fail">> >>
    ELSE << >>

doFormatCalls(fsType, wipeOk, formatRc) ==
    IF FormatAccepted(fsType)
    THEN << <<"WipeBlockDevice", Rc(wipeOk)>>,
            <<"vfat::Format", Rc(formatRc = 0)>> >>
    ELSE << >>

doFormatStatus(fsType, formatRc) ==
    IF FormatAccepted(fsType)
    THEN IF formatRc # 0 THEN ERRNO ELSE OK
    ELSE EINVAL

doFormat(d) ==
    /\ pc[d] = "idle"
    /\ mState[d] # "kMounted"
    /\ \E fsType \in FormatTypes, wipeOk \in BOOLEAN, formatRc \in {0, -1} :
        /\ calls' = doFormatCalls(fsType, wipeOk, formatRc)
        /\ Return(d, "format:" \o fsType, doFormatStatus(fsType, formatRc))
    /\ UNCHANGED <<vol, mountFlags, mState, props, asec, procs, viewDev, claimer>>

(***************************************************************************)
(* The specification: one volume, whose owner starts a call only when no   *)
(* call is running.                                                        *)
(***************************************************************************)
Create(d) == NoCallRunning /\ doCreate(d)
Destroy(d) == NoCallRunning /\ doDestroy(d)
Mount(d) == NoCallRunning /\ doMount_probe(d)
Unmount(d) == NoCallRunning /\ doUnmount(d)
Format(d) == NoCallRunning /\ doFormat(d)

\* the volume the one-volume specification drives
FirstDevice == CHOOSE d \in Devices : \A e \in Devices : d <= e

Init == InitWith({FirstDevice})

Next ==
    \E d \in {FirstDevice} :
        \/ Create(d)
        \/ Destroy(d)
        \/ Mount(d)
        \/ doMount_hooks(d)
        \/ doMount_property_set(d)
        \/ doMount_asec(d)
        \/ doMount_fork(d)
        \/ doMount_poll(d)
        \/ Unmount(d)
        \/ Format(d)
        \/ Returned(d)
        \/ \E pid \in Pids : sdcard_mount(pid)
        \/ \E pid \in Pids : child_exit(pid)

Spec == Init /\ [][Next]_vars

(***************************************************************************)
(* The specification of a visible volume whose polling loop keeps running: *)
(* the thread in doMount is scheduled again after each usleep(50000), so   *)
(* an iteration of the loop at line 280 that can leave the loop is taken.  *)
(* The volume is not primary: line 236 takes its doMount from the hooks to *)
(* the visibility test and the fork without initAsecStage.                 *)
(***************************************************************************)
InitVisible ==
    /\ InitWith({FirstDevice})
    /\ mountFlags[FirstDevice] = {"kVisible"}

NextVisible ==
    \E d \in {FirstDevice} :
        \/ Mount(d)
        \/ doMount_hooks(d)
        \/ doMount_property_set(d)
        \/ doMount_asec(d)
        \/ doMount_fork(d)
        \/ doMount_poll(d)
        \/ Unmount(d)
        \/ Returned(d)
        \/ \E pid \in Pids : sdcard_mount(pid)
        \/ \E pid \in Pids : child_exit(pid)

SpecVisible ==
    /\ InitVisible
    /\ [][NextVisible]_vars
    /\ \A d \in {FirstDevice} : WF_vars(doMount_poll(d))

(***************************************************************************)
(* The specification of several volumes sharing the trigger slots: every   *)
(* volume is mounted and unmounted, still one call at a time.  The volumes *)
(* are neither visible nor primary, so their mounts end at line 242.       *)
(***************************************************************************)
InitVolumes == InitWith({})

NextVolumes ==
    \E d \in Devices :
        \/ Mount(d)
        \/ doMount_hooks(d)
        \/ doMount_property_set(d)
        \/ doMount_asec(d)
        \/ Unmount(d)
        \/ Returned(d)

SpecVolumes == InitVolumes /\ [][NextVolumes]_vars

(***************************************************************************)
(* The specification of a primary volume next to another volume: the       *)
(* first volume is primary and stages ASEC on kAsecPath, the path all      *)
(* volumes share; the calls are serialized.                                *)
(***************************************************************************)
InitStaging ==
    /\ InitWith({FirstDevice})
    /\ mountFlags[FirstDevice] = {"kPrimary"}

SpecStaging == InitStaging /\ [][NextVolumes]_vars

(***************************************************************************)
(* The specification of mounts that interleave: the owner starts the       *)
(* doMount of a volume while the doMount of another volume is running, so  *)
(* the steps of the two calls (the reads of the trigger flags at lines     *)
(* 139-149, each access() and each property_set of lines 178-233) follow   *)
(* one another in any order.  The owner still takes the status of a        *)
(* handler before the next handler returns.                                *)
(***************************************************************************)
StatusTaken == \A d \in Devices : pc[d] # "return"

NextRace ==
    \E d \in Devices :
        \/ StatusTaken /\ doMount_probe(d)
        \/ doMount_hooks(d)
        \/ doMount_property_set(d)
        \/ StatusTaken /\ doMount_asec(d)
        \/ Returned(d)

SpecRace == InitVolumes /\ [][NextRace]_vars

(***************************************************************************)
(* Vocabulary of the properties.                                           *)
(***************************************************************************)
\* the running or last call made the external call `name` with result `rc`
InCalls(name, rc) == \E i \in 1..Len(calls) : calls[i] = <<name, rc>>

Called(name) == \E i \in 1..Len(calls) : calls[i][1] = name

\* handler `op` of d has returned and the owner has not yet acted on it
JustReturned(d, op) == pc[d] = "return" /\ ret.dev = d /\ ret.op = op

SlotClaimed(h) == property_get_bool(props[TriggerKey(h)], FALSE)

SlotIdle(h) ==
    /\ props[PathKey(h)] = ""
    /\ props[StorageKey(h)] = ""
    /\ ~SlotClaimed(h)

\* the steps of doMount that follow the native mount
LaterStepCalled ==
    \/ \E h \in HookSet : Called("access:" \o h)
    \/ Called("initAsecStage")
    \/ Called("fork")

NativeMountFailed ==
    InCalls("vfat::Mount", "fail") \/ InCalls("Ntfs::doMount", "fail")

SessionCleared(d) ==
    /\ vol[d].mRawPath = ""
    /\ vol[d].mFuseDefault = ""
    /\ vol[d].mFuseRead = ""
    /\ vol[d].mFuseWrite = ""

(***************************************************************************)
(* C1: whenever the native mount of the probed filesystem fails, vfat or   *)
(* ntfs, doMount returns -EIO and runs none of the later steps (hook       *)
(* evaluation, ASEC staging, fork).  The ntfs branch (lines 167-171) only  *)
(* logs the failure, so this is violated.                                  *)
(***************************************************************************)
C1_NativeMountFailureAborts ==
    NativeMountFailed =>
        /\ \E d \in Devices : JustReturned(d, "mount") /\ ret.status = EIO
        /\ ~LaterStepCalled

(***************************************************************************)
(* C2: after every completed doUnmount the four paths are empty and        *)
(* mFusePid is 0.  A failed fork leaves mFusePid = -1, which line 289      *)
(* (mFusePid > 0) never resets, so this is violated.                       *)
(***************************************************************************)
C2_UnmountClearsSession ==
    \A d \in Devices :
        JustReturned(d, "unmount") =>
            SessionCleared(d) /\ vol[d].mFusePid = 0

(***************************************************************************)
(* C3: a slot that a volume's mount claimed is idle again after that       *)
(* volume's next completed doUnmount.  doUnmount recomputes the stable     *)
(* name from mFsUuid, which a later doMount may have replaced, so this is  *)
(* violated.                                                               *)
(***************************************************************************)
C3_UnmountFreesOwnSlots ==
    \A d \in Devices : \A h \in HookSet :
        (JustReturned(d, "unmount") /\ claimer[h] = d) => SlotIdle(h)

(***************************************************************************)
(* C4: doUnmount of a volume leaves the path, storage name and trigger of  *)
(* every slot whose stored storage name differs from the volume's stable   *)
(* name as they were, and resets every slot whose stored storage name      *)
(* equals it to idle; each of the three slots on its own.                  *)
(***************************************************************************)
VolumeStableName(d) ==
    IF vol[d].mFsUuid = "" THEN getId(d) ELSE vol[d].mFsUuid

UnmountStep(d) == pc[d] = "idle" /\ pc'[d] = "return" /\ ret'.op = "unmount"

C4_UnmountSlotIsolation ==
    [][\A d \in Devices : UnmountStep(d) =>
        \A h \in HookSet :
            IF props[StorageKey(h)] = VolumeStableName(d)
            THEN /\ props'[PathKey(h)] = ""
                 /\ props'[StorageKey(h)] = ""
                 /\ ~property_get_bool(props'[TriggerKey(h)], FALSE)
            ELSE /\ props'[PathKey(h)] = props[PathKey(h)]
                 /\ props'[StorageKey(h)] = props[StorageKey(h)]
                 /\ props'[TriggerKey(h)] = props[TriggerKey(h)]]_vars

\* an unmount has returned that left the slot another volume claimed under
\* another name, while a slot cleared by an unmount is idle
C4_Witness ==
    \E d \in Devices : \E h, g \in HookSet :
        /\ JustReturned(d, "unmount")
        /\ SlotClaimed(h) /\ claimer[h] \in Devices \ {d}
        /\ props[StorageKey(h)] # VolumeStableName(d)
        /\ props[TriggerKey(g)] = "0" /\ SlotIdle(g)

(***************************************************************************)
(* C5: vfat::Check is tried first and Ntfs::check only after it failed;    *)
(* when both fail, or the reported type is neither vfat nor ntfs, doMount  *)
(* returns -EIO without a native mount; the native mount is that of the    *)
(* family whose check passed.                                              *)
(***************************************************************************)
BothChecksFailed ==
    InCalls("vfat::Check", "fail") /\ InCalls("Ntfs::check", "fail")

ReportedType == IF Called("readMetadata") THEN calls[1][2] ELSE "none"

C5_ProbeOrder ==
    /\ \A i \in 1..Len(calls) :
        /\ calls[i][1] = "Ntfs::check" =>
              i > 1 /\ calls[i - 1] = <<"vfat::Check", "fail">>
        /\ calls[i] = <<"vfat::Check", "fail">> =>
              i < Len(calls) /\ calls[i + 1][1] = "Ntfs::check"
        /\ calls[i][1] = "vfat::Mount" => InCalls("vfat::Check", "ok")
        /\ calls[i][1] = "Ntfs::doMount" => InCalls("Ntfs::check", "ok")
    /\ ReportedType \in {"vfat", "ntfs"} =>
          Len(calls) >= 2 /\ calls[2][1] = "vfat::Check"
    /\ (BothChecksFailed \/ ReportedType \notin {"vfat", "ntfs", "none"}) =>
          /\ \E d \in Devices : JustReturned(d, "mount") /\ ret.status = EIO
          /\ ~Called("vfat::Mount") /\ ~Called("Ntfs::doMount")

\* the fallback family was probed and mounted
C5_Witness ==
    \E d \in Devices :
        /\ JustReturned(d, "mount") /\ ret.status = OK
        /\ InCalls("vfat::Check", "fail") /\ InCalls("Ntfs::check", "ok")
        /\ InCalls("Ntfs::doMount", "ok")

(***************************************************************************)
(* C6: a volume without kVisible never forks and never records a pid       *)
(* (mFusePid stays 0); its doMount returns OK straight from the ASEC step, *)
(* without entering the poll.                                              *)
(***************************************************************************)
Hidden(d) == "kVisible" \notin mountFlags[d]

C6_HiddenNeverForks ==
    /\ [](\A d \in Devices : Hidden(d) =>
            /\ vol[d].mFusePid = 0
            /\ pc[d] \notin {"fork", "poll"}
            /\ pc[d] # "idle" => ~Called("fork"))
    /\ [][\A d \in Devices :
            (Hidden(d) /\ pc[d] = "asec" /\ pc'[d] # "asec") =>
                (pc'[d] = "return"
                 /\ ret' = [dev |-> d, op |-> "mount", status |-> OK])]_vars

\* a hidden primary volume has been mounted: staged, and returned OK
C6_Witness ==
    \E d \in Devices :
        /\ Hidden(d) /\ JustReturned(d, "mount") /\ ret.status = OK
        /\ Called("initAsecStage")

(***************************************************************************)
(* C7: the hooks are evaluated in the order update, startup, cust; a hook  *)
(* whose slot was claimed is skipped, the first hook with an idle slot and *)
(* an existing trigger file sets its slot to (trigger path, stable name,   *)
(* "1") and ends the chain; so one doMount claims at most one slot.        *)
(***************************************************************************)
HooksBefore(h) == {Hooks[j] : j \in {k \in 1..Len(Hooks) :
                                      \E i \in 1..Len(Hooks) : Hooks[i] = h /\ k < i}}

HooksAfter(h) == {Hooks[j] : j \in {k \in 1..Len(Hooks) :
                                     \E i \in 1..Len(Hooks) : Hooks[i] = h /\ k > i}}

C7_HookChain ==
    \A d \in Devices : pc[d] = "asec" =>
        LET f == loc[d].fired
            t == loc[d].trig
        IN
        /\ \A h \in HookSet :
            /\ t[h] => ~Called("access:" \o h)
            /\ f # h => (SlotClaimed(h) <=> t[h])
            /\ (~t[h] /\ f # h /\ (f = "none" \/ h \in HooksBefore(f))) =>
                  InCalls("access:" \o h, "fail")
            /\ f = h =>
                /\ ~t[h]
                /\ InCalls("access:" \o h, "ok")
                /\ \A g \in HooksAfter(h) : ~Called("access:" \o g)
                /\ props[PathKey(h)] = vol[d].mRawPath \o TriggerFile(h)
                /\ props[StorageKey(h)] = VolumeStableName(d)
                /\ props[TriggerKey(h)] = "1"
        /\ Cardinality({h \in HookSet : ~t[h] /\ SlotClaimed(h)}) <= 1

\* the update slot was claimed, so the chain went on and startup fired
C7_Witness ==
    \E d \in Devices :
        /\ pc[d] = "asec"
        /\ loc[d].trig["update"] /\ loc[d].fired = "startup"
        /\ InCalls("access:startup", "ok")

(***************************************************************************)
(* C8: doUnmount is idempotent.  Every doUnmount returns OK and leaves the *)
(* volume with no path, no recorded child and no slot stored under its     *)
(* stable name; and a doUnmount that starts in such a state, as the second *)
(* of two calls in a row does, returns OK and changes neither the volume's *)
(* fields nor any property of the three slots.                             *)
(***************************************************************************)
UnmountedClean(d) ==
    /\ SessionCleared(d)
    /\ vol[d].mFusePid <= 0
    /\ \A h \in HookSet : props[StorageKey(h)] # VolumeStableName(d)

C8_UnmountIdempotent ==
    /\ [](\A d \in Devices : JustReturned(d, "unmount") =>
            ret.status = OK /\ UnmountedClean(d))
    /\ [][\A d \in Devices : (UnmountedClean(d) /\ UnmountStep(d)) =>
            (vol'[d] = vol[d] /\ props' = props /\ ret'.status = OK)]_vars

\* an unmount of a volume that was already unmounted, after a session whose
\* slot an earlier unmount had cleared
C8_Witness ==
    \E d \in Devices :
        /\ JustReturned(d, "unmount")
        /\ mState[d] = "kUnmounted"
        /\ \E h \in HookSet : props[TriggerKey(h)] = "0"

(***************************************************************************)
(* C9: once a visible volume has forked, doMount leaves the polling loop   *)
(* only by returning OK, and only from a state where the device of the     *)
(* write view differs from the sample taken before the fork; that device   *)
(* changes only when the child mounts FUSE.  While it equals the sample    *)
(* no step takes the call out of the loop: there is no timeout and no      *)
(* cancellation, also after the child has exited.                          *)
(***************************************************************************)
WriteViewDev(d) == viewDev[vol[d].mFuseWrite]

C9_PollEndsOnlyOnChange ==
    [][\A d \in Devices :
        /\ pc[d] = "poll" =>
            /\ WriteViewDev(d) = loc[d].before => pc'[d] = "poll"
            /\ pc'[d] # "poll" =>
                  (pc'[d] = "return"
                   /\ ret' = [dev |-> d, op |-> "mount", status |-> OK])
            /\ viewDev'[vol[d].mFuseWrite] # WriteViewDev(d) =>
                  \E pid \in Pids : /\ procs[pid].state = "forked"
                                    /\ procs'[pid].state = "serving"
        /\ (~Hidden(d) /\ pc[d] # "return" /\ pc'[d] = "return"
            /\ ret'.op = "mount" /\ ret'.status = OK) =>
              (pc[d] = "poll" /\ WriteViewDev(d) # loc[d].before)]_vars

\* the child's exec failed and it exited: the loop goes on
C9_Witness ==
    \E d \in Devices :
        /\ pc[d] = "poll"
        /\ vol[d].mFusePid \in Pids
        /\ procs[vol[d].mFusePid].state = "exited"
        /\ WriteViewDev(d) = loc[d].before

(***************************************************************************)
(* C10: doFormat of a type other than "vfat" or "auto" returns -EINVAL,    *)
(* calls neither WipeBlockDevice nor vfat::Format and changes nothing of   *)
(* the volume.                                                             *)
(***************************************************************************)
C10_FormatRejects ==
    [][\A d \in Devices : \A t \in FormatTypes \ {"vfat", "auto"} :
        (pc[d] = "idle" /\ pc'[d] = "return" /\ ret'.op = "format:" \o t) =>
            /\ ret'.status = EINVAL
            /\ calls' = << >>
            /\ vol' = vol /\ mState' = mState /\ props' = props
            /\ asec' = asec /\ procs' = procs /\ viewDev' = viewDev]_vars

C10_Witness ==
    \E d \in Devices :
        JustReturned(d, "format:ntfs") /\ ret.status = EINVAL /\ calls = << >>

(***************************************************************************)
(* C11: an accepted doFormat ("vfat" or "auto") calls WipeBlockDevice and   *)
(* then vfat::Format exactly once, whether or not the wipe failed; it       *)
(* returns OK when vfat::Format succeeds, also after a failed wipe, and an  *)
(* error when vfat::Format fails.                                           *)
(***************************************************************************)
AcceptedFormatReturned(d) ==
    JustReturned(d, "format:vfat") \/ JustReturned(d, "format:auto")

C11_FormatAfterWipe ==
    \A d \in Devices : AcceptedFormatReturned(d) =>
        /\ Len(calls) = 2
        /\ calls[1][1] = "WipeBlockDevice"
        /\ calls[2][1] = "vfat::Format"
        /\ calls[2][2] = "ok" => ret.status = OK
        /\ calls[2][2] = "fail" => ret.status \notin {OK, EINVAL}

\* the wipe failed, the format was issued all the same and succeeded
C11_Witness ==
    \E d \in Devices :
        /\ JustReturned(d, "format:auto") /\ ret.status = OK
        /\ calls = << <<"WipeBlockDevice", "fail">>, <<"vfat::Format", "ok">> >>

(***************************************************************************)
(* C12: the stable name is the uuid when it is not empty and               *)
(* "public:<major>:<minor>" otherwise.  Once a doMount has passed the      *)
(* probe, mRawPath is "/mnt/media_rw/<name>", the three views are          *)
(* "/mnt/runtime/{default,read,write}/<name>", the internal path is the    *)
(* raw path, and the path is "/storage/<name>" exactly when the volume is  *)
(* visible and the raw path otherwise.                                     *)
(***************************************************************************)
\* the id of each volume of the model, written out
VolumeIdText(d) ==
    CASE d = MakeDev(179, 1) -> "public:179:1"
      [] d = MakeDev(8, 17) -> "public:8:17"

ExpectedName(d) ==
    IF vol[d].mFsUuid # "" THEN vol[d].mFsUuid ELSE VolumeIdText(d)

\* the running or just returned doMount of d went past the probe
PastProbe(d) ==
    \/ pc[d] \in {"hooks", "set", "asec", "fork", "poll"}
    \/ JustReturned(d, "mount") /\ Called("fs_prepare_dir")

C12_Naming ==
    /\ \A d \in Devices : \A u \in Uuids :
          /\ getId(d) = VolumeIdText(d)
          /\ StableName(getId(d), u) = (IF u = "" THEN VolumeIdText(d) ELSE u)
    /\ \A d \in Devices : PastProbe(d) =>
          /\ vol[d].mRawPath = "/mnt/media_rw/" \o ExpectedName(d)
          /\ vol[d].mFuseDefault = "/mnt/runtime/default/" \o ExpectedName(d)
          /\ vol[d].mFuseRead = "/mnt/runtime/read/" \o ExpectedName(d)
          /\ vol[d].mFuseWrite = "/mnt/runtime/write/" \o ExpectedName(d)
          /\ vol[d].internalPath = vol[d].mRawPath
          /\ vol[d].path = (IF Hidden(d) THEN vol[d].mRawPath
                            ELSE "/storage/" \o ExpectedName(d))
          /\ (vol[d].path = "/storage/" \o ExpectedName(d)) <=> ~Hidden(d)

\* a visible volume with a uuid has been mounted under /storage/<uuid>
C12_Witness ==
    \E d \in Devices :
        /\ JustReturned(d, "mount") /\ ret.status = OK
        /\ vol[d].mFsUuid = "ABCD-1234"
        /\ vol[d].mRawPath = "/mnt/media_rw/ABCD-1234"
        /\ vol[d].path = "/storage/ABCD-1234"

(***************************************************************************)
(* C13, as claimed: after every completed doMount or doUnmount the four    *)
(* path fields are all empty or all set, and they are set only when the    *)
(* call was a doMount that returned OK.  doMount sets them at lines        *)
(* 131-135 and returns at lines 164, 175 and 277 without clearing them.    *)
(***************************************************************************)
SessionPopulated(d) ==
    /\ vol[d].mRawPath # ""
    /\ vol[d].mFuseDefault # ""
    /\ vol[d].mFuseRead # ""
    /\ vol[d].mFuseWrite # ""

C13_PathsOnlyWhenMounted ==
    \A d \in Devices :
        (JustReturned(d, "mount") \/ JustReturned(d, "unmount")) =>
            /\ SessionCleared(d) \/ SessionPopulated(d)
            /\ SessionPopulated(d) =>
                  (JustReturned(d, "mount") /\ ret.status = OK)

(***************************************************************************)
(* C13, amended: the four path fields are always all empty or all set;     *)
(* they are empty after every doUnmount, set after every doMount that      *)
(* returned OK, and also set after a doMount that failed past the probe    *)
(* (directories, vfat mount, fork), until the next doUnmount.              *)
(***************************************************************************)
C13_PathsAllOrNone ==
    \A d \in Devices :
        /\ SessionCleared(d) \/ SessionPopulated(d)
        /\ JustReturned(d, "unmount") => SessionCleared(d)
        /\ (JustReturned(d, "mount") /\ ret.status = OK) => SessionPopulated(d)
        /\ (JustReturned(d, "mount") /\ ret.status # OK /\ Called("fs_prepare_dir"))
              => SessionPopulated(d)

\* a doMount failed at the directories and left its paths behind
C13_Witness ==
    \E d \in Devices :
        /\ JustReturned(d, "mount") /\ ret.status = ERRNO
        /\ InCalls("fs_prepare_dir", "fail")
        /\ SessionPopulated(d)

(***************************************************************************)
(* C14: with the calls of all volumes serialized a trigger slot is         *)
(* first-claim-wins: no step of a doMount changes the path or the storage  *)
(* name of a claimed slot, and the properties of a claimed slot change     *)
(* only in a doUnmount of a volume whose stable name is the stored storage *)
(* name, which resets the slot to idle.                                    *)
(***************************************************************************)
SlotUnchanged(h) ==
    /\ props'[PathKey(h)] = props[PathKey(h)]
    /\ props'[StorageKey(h)] = props[StorageKey(h)]
    /\ props'[TriggerKey(h)] = props[TriggerKey(h)]

MountRunning(d) == pc[d] \in {"hooks", "set", "asec", "fork", "poll"}

C14_FirstClaimWins ==
    [][\A h \in HookSet : SlotClaimed(h) =>
        /\ (\E d \in Devices : MountRunning(d) \/ pc'[d] = "hooks") =>
              SlotUnchanged(h)
        /\ ~SlotUnchanged(h) =>
              \E d \in Devices :
                  /\ UnmountStep(d)
                  /\ props[StorageKey(h)] = VolumeStableName(d)
                  /\ props'[PathKey(h)] = ""
                  /\ props'[StorageKey(h)] = ""
                  /\ ~property_get_bool(props'[TriggerKey(h)], FALSE)]_vars

\* the mount of a second volume has skipped the slot a first volume holds
C14_Witness ==
    \E d, e \in Devices : \E h \in HookSet :
        /\ d # e
        /\ claimer[h] = d /\ SlotClaimed(h)
        /\ props[StorageKey(h)] = VolumeStableName(d)
        /\ VolumeStableName(d) # VolumeStableName(e)
        /\ pc[e] = "asec" /\ loc[e].trig[h]
        /\ InCalls("vfat::Mount", "ok")

(***************************************************************************)
(* C15: when the doMounts of two volumes interleave, the test of a slot's  *)
(* flag and the writes of the slot are apart: every property_set of a call *)
(* rests on the flag as the call read it at its start, whatever the slot   *)
(* holds by then.  So two calls that both read the slot as idle both write *)
(* it, and the slot can end with the path of one volume and the storage    *)
(* name of the other.                                                      *)
(***************************************************************************)
SlotWriteStep(d, h) ==
    /\ pc[d] = "set" /\ loc[d].fired = h
    /\ loc'[d].step # loc[d].step

C15_CheckThenSet ==
    [][\A d \in Devices : \A h \in HookSet : SlotWriteStep(d, h) =>
        /\ ~loc[d].trig[h]
        /\ \E k \in {PathKey(h), StorageKey(h), TriggerKey(h)} :
              /\ props'[k] \in {vol[d].mRawPath \o TriggerFile(h),
                                 VolumeStableName(d), "1"}
              /\ \A j \in PropKeys \ {k} : props'[j] = props[j]]_vars

\* both mounts are over and a slot holds the path of one volume and the
\* storage name of the other
C15_Witness ==
    \E d, e \in Devices : \E h \in HookSet :
        /\ VolumeStableName(d) # VolumeStableName(e)
        /\ mState[d] = "kMounted" /\ mState[e] = "kMounted"
        /\ SlotClaimed(h)
        /\ props[PathKey(h)] = vol[d].mRawPath \o TriggerFile(h)
        /\ props[StorageKey(h)] = VolumeStableName(e)

(***************************************************************************)
(* C16: every doUnmount runs its steps in one order: kill and waitpid of   *)
(* the recorded child and mFusePid = 0; ForceUnmount of kAsecPath;         *)
(* ForceUnmount of the default, read and write views and then of the raw   *)
(* path; rmdir of the four directories; the four paths cleared; the slots  *)
(* stored under the volume's stable name cleared.  A step that fails stops *)
(* none of the later ones and doUnmount returns OK.  So the child has      *)
(* been reaped before the first view is unmounted.                         *)
(***************************************************************************)
UnmountTail ==
    <<"ForceUnmount:asec",
      "ForceUnmount:default", "ForceUnmount:read", "ForceUnmount:write",
      "ForceUnmount:raw",
      "rmdir:default", "rmdir:read", "rmdir:write", "rmdir:raw">>

CallNames(c) == [i \in 1..Len(c) |-> c[i][1]]

C16_UnmountOrder ==
    [][\A d \in Devices : UnmountStep(d) =>
        /\ CallNames(calls') =
              (IF vol[d].mFusePid > 0 THEN <<"kill", "waitpid">> ELSE << >>)
              \o UnmountTail
        /\ vol[d].mFusePid > 0 =>
              /\ vol'[d].mFusePid = 0
              /\ procs'[vol[d].mFusePid].state = "free"
        /\ ret'.status = OK
        /\ vol'[d].mRawPath = "" /\ vol'[d].mFuseDefault = ""
        /\ vol'[d].mFuseRead = "" /\ vol'[d].mFuseWrite = ""
        /\ \A h \in HookSet :
              props[StorageKey(h)] = VolumeStableName(d) =>
                  /\ props'[PathKey(h)] = ""
                  /\ props'[StorageKey(h)] = ""
                  /\ props'[TriggerKey(h)] = "0"]_vars

\* the child was killed, the unmount of kAsecPath and the rmdirs failed,
\* and the unmount went through all its steps
C16_Witness ==
    \E d \in Devices :
        /\ JustReturned(d, "unmount") /\ ret.status = OK
        /\ Len(calls) = 11
        /\ calls[1] = <<"kill", "ok">>
        /\ InCalls("ForceUnmount:asec", "fail")
        /\ calls[11] = <<"rmdir:raw", "fail">>
        /\ SessionCleared(d)

(***************************************************************************)
(* C17: for a visible volume whose fork succeeded: once the device of the  *)
(* write view differs from the sample taken before the fork, and the       *)
(* polling loop is scheduled, doMount returns OK with mFusePid the pid of  *)
(* the child; and doMount returns OK for a visible volume only from the    *)
(* loop, with the device different from the sample and mFusePid the pid    *)
(* fork() returned.                                                        *)
(***************************************************************************)
ViewChanged(d) == pc[d] = "poll" /\ WriteViewDev(d) # loc[d].before

MountedWithChild(d) ==
    /\ JustReturned(d, "mount") /\ ret.status = OK
    /\ vol[d].mFusePid \in Pids
    /\ procs[vol[d].mFusePid].name = VolumeStableName(d)
    /\ procs[vol[d].mFusePid].state = "serving"

C17_ReadyThenReturns ==
    /\ \A d \in Devices : ViewChanged(d) ~> MountedWithChild(d)
    /\ [](\A d \in Devices :
            (~Hidden(d) /\ JustReturned(d, "mount") /\ ret.status = OK) =>
                /\ MountedWithChild(d)
                /\ Called("fork"))
    /\ [][\A d \in Devices :
            (~Hidden(d) /\ pc[d] # "return" /\ pc'[d] = "return"
             /\ ret'.op = "mount" /\ ret'.status = OK) =>
                /\ ViewChanged(d)
                /\ vol'[d].mFusePid = vol[d].mFusePid]_vars

\* the child has mounted FUSE on the write view and the mount has returned
C17_Witness ==
    \E d \in Devices :
        /\ ~Hidden(d) /\ MountedWithChild(d)
        /\ WriteViewDev(d) \in 1..MaxFuseDev

(***************************************************************************)
(* C18: initAsecStage is called exactly when the volume is primary and its *)
(* doMount has passed the native mount and the hooks, and its result does  *)
(* not change the result of doMount: whether rename or mkdir fail, a       *)
(* hidden volume returns OK and a visible one goes on to the fork.         *)
(* BindMount onto kAsecPath is called only when mkdir succeeded or failed  *)
(* with EEXIST.                                                            *)
(***************************************************************************)
AsecStep(d) == pc[d] = "asec" /\ pc'[d] # "asec"

C18_StagingBestEffort ==
    /\ [](Called("initAsecStage") =>
            /\ \E d \in Devices :
                  /\ "kPrimary" \in mountFlags[d]
                  /\ pc[d] \in {"fork", "poll", "return"}
            /\ Called("vfat::Mount") \/ Called("Ntfs::doMount")
            /\ Called("BindMount") =>
                  InCalls("mkdir", "ok") \/ InCalls("mkdir", "EEXIST"))
    /\ [][\A d \in Devices : AsecStep(d) =>
            /\ (\E i \in 1..Len(calls') : calls'[i][1] = "initAsecStage")
                  <=> "kPrimary" \in mountFlags[d]
            /\ IF Hidden(d)
               THEN /\ pc'[d] = "return"
                    /\ ret' = [dev |-> d, op |-> "mount", status |-> OK]
               ELSE pc'[d] = "fork" /\ ret' = ret]_vars

\* mkdir failed, no bind mount was made and the visible volume goes on to
\* fork its daemon
C18_Witness ==
    \E d \in Devices :
        /\ pc[d] = "fork"
        /\ "kPrimary" \in mountFlags[d]
        /\ InCalls("initAsecStage", "fail") /\ InCalls("mkdir", "fail")
        /\ ~Called("BindMount")

(***************************************************************************)
(* C19: the doUnmount of a volume leaves the bind mount on kAsecPath that  *)
(* another, still mounted primary volume staged: while that volume is      *)
(* mounted, kAsecPath stays bound to its .android_secure directory.        *)
(* doUnmount calls ForceUnmount(kAsecPath) (line 295) whatever the volume, *)
(* so this is violated.                                                    *)
(***************************************************************************)
AsecBoundTo(d) ==
    /\ asec # << >>
    /\ asec[Len(asec)] = vol[d].mRawPath \o "/.android_secure"

C19_AsecBindSurvives ==
    [][\A d, e \in Devices :
        (/\ d # e
         /\ "kPrimary" \in mountFlags[d]
         /\ mState[d] = "kMounted"
         /\ AsecBoundTo(d)
         /\ UnmountStep(e)) => AsecBoundTo(d)']_vars

(***************************************************************************)
(* C20: from three idle slots and with serialized doMount and doUnmount    *)
(* calls, in every state between two calls each slot has its trigger set   *)
(* exactly when its storage name is not empty and exactly when its path is *)
(* not empty; the path of a claimed slot is the raw path of the claiming   *)
(* mount followed by the hook's trigger file, and its storage name the     *)
(* stable name that raw path was made from.                                *)
(***************************************************************************)
C20_SlotConsistency ==
    NoCallRunning =>
        \A h \in HookSet :
            /\ SlotClaimed(h) <=> props[StorageKey(h)] # ""
            /\ SlotClaimed(h) <=> props[PathKey(h)] # ""
            /\ SlotClaimed(h) =>
                  /\ props[StorageKey(h)] \in StableNames
                  /\ props[PathKey(h)] =
                        "/mnt/media_rw/" \o props[StorageKey(h)] \o TriggerFile(h)
                  /\ claimer[h] \in Devices

\* between calls: one slot is claimed by a mounted volume, another has been
\* claimed and reset by an unmount
C20_Witness ==
    /\ NoCallRunning
    /\ \E h, g \in HookSet : \E d \in Devices :
          /\ SlotClaimed(h) /\ claimer[h] = d /\ mState[d] = "kMounted"
          /\ props[StorageKey(h)] = VolumeStableName(d)
          /\ props[PathKey(h)] = vol[d].mRawPath \o TriggerFile(h)
          /\ props[TriggerKey(g)] = "0" /\ SlotIdle(g)

====
